---- MODULE Spec2Model ----
(***************************************************************************)
(* Cloud-Scanner: the scan orchestrator (runFullScan), the four provider   *)
(* scanners with their collectors and check functions, and the DynamoDB    *)
(* result store (saveScanResult / getLatestScanResult / getScanResult).    *)
(***************************************************************************)
EXTENDS Integers, Sequences, FiniteSets, TLC

(***************************************************************************)
(* Bounds of the model.                                                    *)
(***************************************************************************)
\* Last millisecond the wall clock can show.
MaxClock == 2

\* The invocations of runFullScan: Spec runs the first, SpecOverlap both.
Scans == {1, 2}
Providers == <<"S3", "EC2", "IAM", "RDS">>
ProviderSet == {"S3", "EC2", "IAM", "RDS"}

(***************************************************************************)
(* Values of the JavaScript heap.  A Date, the ISO string made from it by  *)
(* toISOString(), and undefined are different values; ms is the instant.   *)
(***************************************************************************)
DateOf(t) == [type |-> "Date", ms |-> t]
Undefined == [type |-> "undefined", ms |-> 0]
IsDate(v) == v.type = "Date"
\* Date.prototype.toISOString as used by prepareForStorage
toISOString(d) == [type |-> "string", ms |-> d.ms]
\* x instanceof Date ? x.toISOString() : x
DateToStorage(v) == IF IsDate(v) THEN toISOString(v) ELSE v

\* An optional number of a provider response (undefined when absent).
Some(n) == [has |-> TRUE, v |-> n]
None == [has |-> FALSE, v |-> 0]
\* x ?? d
OrElse(o, d) == IF o.has THEN o.v ELSE d
\* x || 0 for an optional number
OrZero(o) == IF o.has THEN o.v ELSE 0

RECURSIVE Concat(_)
\* [].concat(...seqs) : what a loop pushing each element's items builds
Concat(seqs) ==
    IF seqs = <<>> THEN <<>> ELSE Head(seqs) \o Concat(Tail(seqs))

(***************************************************************************)
(* SecurityFinding as the check functions build it: no timestamp key yet.  *)
(***************************************************************************)
Finding(rt, id, check, status, severity, message) ==
    [resourceType |-> rt, resourceId |-> id, checkName |-> check,
     status |-> status, severity |-> severity, message |-> message,
     timestamp |-> Undefined]

PassFail(ok, failSeverity) ==
    [status |-> IF ok THEN "PASS" ELSE "FAIL",
     severity |-> IF ok THEN "LOW" ELSE failSeverity]

(***************************************************************************)
(* S3 collector (aws/s3.ts) and S3 scanner (scanners/s3Scanner.ts).        *)
(* A raw sub-lookup response carries err = "" when the call succeeded,     *)
(* else the name of the provider error.                                    *)
(***************************************************************************)
\* Faulty variant: fully blocked as soon as one of the four settings is on
getPublicAccessBlockAnyFlag(resp) ==
    IF resp.err = ""
    THEN LET a == resp.BlockPublicAcls
             b == resp.BlockPublicPolicy
             c == resp.IgnorePublicAcls
             d == resp.RestrictPublicBuckets
         IN [blockPublicAcls |-> a, blockPublicPolicy |-> b,
             ignorePublicAcls |-> c, restrictPublicBuckets |-> d,
             isFullyBlocked |-> a \/ b \/ c \/ d]
    ELSE [blockPublicAcls |-> FALSE, blockPublicPolicy |-> FALSE,
          ignorePublicAcls |-> FALSE, restrictPublicBuckets |-> FALSE,
          isFullyBlocked |-> FALSE]

getPublicAccessBlock(resp) ==
    IF resp.err = ""
    THEN LET a == resp.BlockPublicAcls
             b == resp.BlockPublicPolicy
             c == resp.IgnorePublicAcls
             d == resp.RestrictPublicBuckets
         IN [blockPublicAcls |-> a, blockPublicPolicy |-> b,
             ignorePublicAcls |-> c, restrictPublicBuckets |-> d,
             isFullyBlocked |-> a /\ b /\ c /\ d]
    ELSE [blockPublicAcls |-> FALSE, blockPublicPolicy |-> FALSE,
          ignorePublicAcls |-> FALSE, restrictPublicBuckets |-> FALSE,
          isFullyBlocked |-> FALSE]

\* type "" stands for an undefined encryption type
getBucketEncryption(resp) ==
    IF resp.err = "" /\ Len(resp.Rules) > 0
    THEN [enabled |-> TRUE, type |-> resp.Rules[1]]
    ELSE [enabled |-> FALSE, type |-> ""]

getBucketVersioning(resp) ==
    IF resp.err = ""
    THEN [enabled |-> resp.Status = "Enabled", mfaDelete |-> resp.MFADelete = "Enabled"]
    ELSE [enabled |-> FALSE, mfaDelete |-> FALSE]

getBucketRegion(resp) ==
    IF resp.err = ""
    THEN (IF resp.LocationConstraint = "" THEN "us-east-1" ELSE resp.LocationConstraint)
    ELSE "unknown"

S3BucketInfo(bucket) ==
    [name |-> bucket.Name,
     region |-> getBucketRegion(bucket.location),
     publicAccess |-> getPublicAccessBlock(bucket.pab),
     encryption |-> getBucketEncryption(bucket.enc),
     versioning |-> getBucketVersioning(bucket.ver)]

\* buckets without a Name are skipped
getAllBucketsInfo(buckets) ==
    LET named == SelectSeq(buckets, LAMBDA b : b.Name # "")
    IN [k \in 1..Len(named) |-> S3BucketInfo(named[k])]

S3Finding(bucket, check, ok, failSeverity, message) ==
    [resourceType |-> "S3", resourceId |-> bucket.name, checkName |-> check,
     status |-> PassFail(ok, failSeverity).status,
     severity |-> PassFail(ok, failSeverity).severity,
     message |-> message, timestamp |-> Undefined, region |-> bucket.region]

checkPublicAccess(bucket) ==
    LET isBlocked == bucket.publicAccess.isFullyBlocked
    IN S3Finding(bucket, "Public Access Block", isBlocked, "HIGH",
          IF isBlocked
          THEN "Public access is fully blocked for this bucket"
          ELSE "Public access is NOT fully blocked. This bucket may be publicly accessible")

checkS3Encryption(bucket) ==
    LET isEncrypted == bucket.encryption.enabled
        encryptionType == IF bucket.encryption.type = "" THEN "None"
                          ELSE bucket.encryption.type
    IN S3Finding(bucket, "Server-Side Encryption", isEncrypted, "MEDIUM",
          IF isEncrypted
          THEN "Encryption is enabled using " \o encryptionType
          ELSE "Server-side encryption is NOT enabled. Data at rest is not protected")

checkVersioning(bucket) ==
    LET isEnabled == bucket.versioning.enabled
    IN S3Finding(bucket, "Versioning", isEnabled, "LOW",
          IF isEnabled
          THEN "Versioning is enabled - objects can be recovered if deleted"
          ELSE "Versioning is NOT enabled. Consider enabling for data protection")

\* Faulty variant: the encryption check pushed a second time in place of the
\* versioning check
S3ChecksEncryptionTwice(bucket) ==
    <<checkPublicAccess(bucket), checkS3Encryption(bucket), checkS3Encryption(bucket)>>

S3Checks(bucket) ==
    <<checkPublicAccess(bucket), checkS3Encryption(bucket), checkVersioning(bucket)>>

(***************************************************************************)
(* EC2 collector (aws/ec2.ts).                                             *)
(***************************************************************************)
\* Faulty variant: every network that starts at the zero address
isOpenToWorldZeroAddress(cidr) == cidr \in {"0.0.0.0/0", "0.0.0.0/1", "::/0"}

isOpenToWorld(cidr) == cidr = "0.0.0.0/0" \/ cidr = "::/0"

\* IpProtocol "" stands for an absent protocol (|| "all")
SecurityGroupRule(permission, cidr) ==
    [protocol |-> IF permission.IpProtocol = "" THEN "all" ELSE permission.IpProtocol,
     fromPort |-> permission.FromPort,
     toPort |-> permission.ToPort,
     source |-> cidr,
     isOpenToWorld |-> isOpenToWorld(cidr)]

RulesOfPermission(permission) ==
    [k \in 1..Len(permission.IpRanges) |->
        SecurityGroupRule(permission, permission.IpRanges[k])]
    \o [k \in 1..Len(permission.Ipv6Ranges) |->
          SecurityGroupRule(permission, permission.Ipv6Ranges[k])]

parseInboundRules(permissions) ==
    Concat([k \in 1..Len(permissions) |-> RulesOfPermission(permissions[k])])

\* Faulty variant: the port range alone decides, protocol -1 is not special
RuleOpensPortByRange(rule, port) ==
    /\ rule.isOpenToWorld
    /\ port >= OrElse(rule.fromPort, 0)
    /\ port <= OrElse(rule.toPort, 65535)

RuleOpensPort(rule, port) ==
    /\ rule.isOpenToWorld
    /\ \/ rule.protocol = "-1"
       \/ /\ port >= OrElse(rule.fromPort, 0)
          /\ port <= OrElse(rule.toPort, 65535)

hasPortOpenToWorld(rules, port) ==
    \E k \in 1..Len(rules) : RuleOpensPort(rules[k], port)

\* Faulty variant: hasOpenToWorld looking at the IPv4 sources only
SecurityGroupInfoIpv4Only(sg) ==
    LET inboundRules == parseInboundRules(sg.IpPermissions)
    IN [groupId |-> sg.GroupId,
        groupName |-> IF sg.GroupName = "" THEN "Unknown" ELSE sg.GroupName,
        inboundRules |-> inboundRules,
        hasOpenSSH |-> hasPortOpenToWorld(inboundRules, 22),
        hasOpenRDP |-> hasPortOpenToWorld(inboundRules, 3389),
        hasOpenToWorld |-> \E k \in 1..Len(inboundRules) :
                              inboundRules[k].source = "0.0.0.0/0"]

SecurityGroupInfo(sg) ==
    LET inboundRules == parseInboundRules(sg.IpPermissions)
    IN [groupId |-> sg.GroupId,
        groupName |-> IF sg.GroupName = "" THEN "Unknown" ELSE sg.GroupName,
        inboundRules |-> inboundRules,
        hasOpenSSH |-> hasPortOpenToWorld(inboundRules, 22),
        hasOpenRDP |-> hasPortOpenToWorld(inboundRules, 3389),
        hasOpenToWorld |-> \E k \in 1..Len(inboundRules) : inboundRules[k].isOpenToWorld]

listSecurityGroups(groups) ==
    LET named == SelectSeq(groups, LAMBDA g : g.GroupId # "")
    IN [k \in 1..Len(named) |-> SecurityGroupInfo(named[k])]

\* Name "" : no Name tag; State "" : no state; PublicIpAddress "" : none
EC2InstanceInfo(instance) ==
    [instanceId |-> instance.InstanceId,
     name |-> IF instance.Name = "" THEN "Unnamed" ELSE instance.Name,
     state |-> IF instance.State = "" THEN "unknown" ELSE instance.State,
     publicIp |-> instance.PublicIpAddress,
     hasPublicIp |-> instance.PublicIpAddress # ""]

listInstances(instances) ==
    LET named == SelectSeq(instances, LAMBDA x : x.InstanceId # "")
    IN [k \in 1..Len(named) |-> EC2InstanceInfo(named[k])]

getEC2SecurityInfo(raw) ==
    [instances |-> listInstances(raw.instances),
     securityGroups |-> listSecurityGroups(raw.groups)]

(***************************************************************************)
(* EC2 scanner (scanners/ec2Scanner.ts).                                   *)
(***************************************************************************)
SgResourceId(sg) == sg.groupName \o " (" \o sg.groupId \o ")"

checkSSHExposure(sg) ==
    Finding("SECURITY_GROUP", SgResourceId(sg), "SSH Port Exposure (22)",
        PassFail(~sg.hasOpenSSH, "HIGH").status,
        PassFail(~sg.hasOpenSSH, "HIGH").severity,
        IF sg.hasOpenSSH
        THEN "SSH port 22 is open to the world (0.0.0.0/0). Restrict to specific IPs"
        ELSE "SSH port 22 is not exposed to the world")

checkRDPExposure(sg) ==
    Finding("SECURITY_GROUP", SgResourceId(sg), "RDP Port Exposure (3389)",
        PassFail(~sg.hasOpenRDP, "HIGH").status,
        PassFail(~sg.hasOpenRDP, "HIGH").severity,
        IF sg.hasOpenRDP
        THEN "RDP port 3389 is open to the world (0.0.0.0/0). Restrict to specific IPs"
        ELSE "RDP port 3389 is not exposed to the world")

checkOpenToWorld(sg) ==
    LET openRules == SelectSeq(sg.inboundRules, LAMBDA r : r.isOpenToWorld)
    IN Finding("SECURITY_GROUP", SgResourceId(sg), "Unrestricted Inbound Access",
        PassFail(~sg.hasOpenToWorld, "MEDIUM").status,
        PassFail(~sg.hasOpenToWorld, "MEDIUM").severity,
        IF sg.hasOpenToWorld
        THEN ToString(Len(openRules)) \o " inbound rule(s) allow traffic from 0.0.0.0/0"
        ELSE "No inbound rules allow unrestricted access")

checkPublicIPExposure(instance) ==
    Finding("EC2", instance.name \o " (" \o instance.instanceId \o ")", "Public IP Exposure",
        PassFail(~instance.hasPublicIp, "MEDIUM").status,
        PassFail(~instance.hasPublicIp, "MEDIUM").severity,
        IF instance.hasPublicIp
        THEN "Instance has a public IP: " \o instance.publicIp \o ". Ensure this is intentional"
        ELSE "Instance does not have a public IP")

SgChecks(sg) == <<checkSSHExposure(sg), checkRDPExposure(sg), checkOpenToWorld(sg)>>

\* Faulty variant: stopped instances are skipped as well
InstanceChecksRunningOnly(instance) ==
    IF instance.state = "running" THEN <<checkPublicIPExposure(instance)>> ELSE <<>>

InstanceChecks(instance) ==
    IF instance.state = "running" \/ instance.state = "stopped"
    THEN <<checkPublicIPExposure(instance)>>
    ELSE <<>>

(***************************************************************************)
(* IAM collector (aws/iam.ts) and IAM scanner (scanners/iamScanner.ts).    *)
(***************************************************************************)
ADMIN_POLICY_ARNS ==
    {"arn:aws:iam::aws:policy/AdministratorAccess",
     "arn:aws:iam::aws:policy/PowerUserAccess",
     "arn:aws:iam::aws:policy/IAMFullAccess"}

\* Faulty variant: a match on the policy name, whatever the case, the account
\* or what follows the name
isAdminPolicyByName(policyArn) ==
    policyArn \in ADMIN_POLICY_ARNS
                    \cup {"arn:aws:iam::aws:policy/AdministratorAccess-Amplify",
                          "arn:aws:iam::123456789012:policy/AdministratorAccess",
                          "arn:aws:iam::aws:policy/administratoraccess"}

isAdminPolicy(policyArn) == policyArn \in ADMIN_POLICY_ARNS

userHasMFA(resp) == IF resp.err = "" THEN resp.MFADevices > 0 ELSE FALSE

\* GetLoginProfile succeeds iff the user has a login profile
userHasConsoleAccess(resp) == resp.err = ""

getUserAttachedPolicies(resp) == IF resp.err = "" THEN resp.AttachedPolicies ELSE <<>>

IAMUserInfo(user) ==
    LET policyArns == getUserAttachedPolicies(user.policies)
    IN [userName |-> user.UserName,
        hasMFA |-> userHasMFA(user.mfa),
        hasConsoleAccess |-> userHasConsoleAccess(user.login),
        attachedPolicies |-> policyArns,
        hasAdminAccess |-> \E k \in 1..Len(policyArns) : isAdminPolicy(policyArns[k])]

getAllUsersInfo(users) ==
    LET named == SelectSeq(users, LAMBDA u : u.UserName # "")
    IN [k \in 1..Len(named) |-> IAMUserInfo(named[k])]

\* summary["AccountMFAEnabled"] absent counts as 0
getAccountSummary(summaryMap) ==
    [accountMFAEnabled |-> OrZero(summaryMap.AccountMFAEnabled) = 1]

\* Faulty variant: MFA demanded of every user, console access or not
checkMFAEnabledEveryUser(user) ==
    Finding("IAM", user.userName, "MFA Enabled",
        PassFail(user.hasMFA, "HIGH").status,
        PassFail(user.hasMFA, "HIGH").severity,
        IF user.hasMFA
        THEN "MFA is enabled for this user"
        ELSE "MFA is NOT enabled. User with console access should have MFA")

checkMFAEnabled(user) ==
    IF ~user.hasConsoleAccess
    THEN Finding("IAM", user.userName, "MFA Enabled", "PASS", "LOW",
             "User does not have console access, MFA not required")
    ELSE Finding("IAM", user.userName, "MFA Enabled",
             PassFail(user.hasMFA, "HIGH").status,
             PassFail(user.hasMFA, "HIGH").severity,
             IF user.hasMFA
             THEN "MFA is enabled for this user"
             ELSE "MFA is NOT enabled. User with console access should have MFA")

checkAdminAccess(user) ==
    Finding("IAM", user.userName, "Admin Access Check",
        PassFail(~user.hasAdminAccess, "HIGH").status,
        PassFail(~user.hasAdminAccess, "HIGH").severity,
        IF user.hasAdminAccess
        THEN "User has admin-level permissions. Ensure this is necessary"
        ELSE "User does not have admin-level permissions")

checkRootMFA(accountMFAEnabled) ==
    Finding("IAM", "ROOT-ACCOUNT", "Root Account MFA",
        PassFail(accountMFAEnabled, "CRITICAL").status,
        PassFail(accountMFAEnabled, "CRITICAL").severity,
        IF accountMFAEnabled
        THEN "Root account has MFA enabled"
        ELSE "Root account does NOT have MFA enabled. This is a critical security risk")

UserChecks(user) == <<checkMFAEnabled(user), checkAdminAccess(user)>>

(***************************************************************************)
(* RDS collector (aws/rds.ts) and RDS scanner (scanners/rdsScanner.ts).    *)
(***************************************************************************)
\* Faulty variant: a retention period of zero counted as backups enabled
RDSInstanceInfoZeroEnabled(instance) ==
    [dbInstanceId |-> instance.DBInstanceIdentifier,
     isPubliclyAccessible |-> instance.PubliclyAccessible,
     isEncrypted |-> instance.StorageEncrypted,
     hasBackupEnabled |-> OrZero(instance.BackupRetentionPeriod) >= 0,
     backupRetentionPeriod |-> OrZero(instance.BackupRetentionPeriod),
     multiAZ |-> instance.MultiAZ]

RDSInstanceInfo(instance) ==
    [dbInstanceId |-> instance.DBInstanceIdentifier,
     isPubliclyAccessible |-> instance.PubliclyAccessible,
     isEncrypted |-> instance.StorageEncrypted,
     hasBackupEnabled |-> OrZero(instance.BackupRetentionPeriod) > 0,
     backupRetentionPeriod |-> OrZero(instance.BackupRetentionPeriod),
     multiAZ |-> instance.MultiAZ]

getAllRDSInfo(instances) ==
    LET named == SelectSeq(instances, LAMBDA d : d.DBInstanceIdentifier # "")
    IN [k \in 1..Len(named) |-> RDSInstanceInfo(named[k])]

checkPublicAccessibility(db) ==
    Finding("RDS", db.dbInstanceId, "Public Accessibility",
        PassFail(~db.isPubliclyAccessible, "HIGH").status,
        PassFail(~db.isPubliclyAccessible, "HIGH").severity,
        IF db.isPubliclyAccessible
        THEN "RDS instance is publicly accessible. This exposes your database to the internet"
        ELSE "RDS instance is not publicly accessible")

checkRDSEncryption(db) ==
    Finding("RDS", db.dbInstanceId, "Encryption at Rest",
        PassFail(db.isEncrypted, "MEDIUM").status,
        PassFail(db.isEncrypted, "MEDIUM").severity,
        IF db.isEncrypted
        THEN "Storage encryption is enabled"
        ELSE "Storage encryption is NOT enabled. Data at rest is not protected")

checkBackupEnabled(db) ==
    Finding("RDS", db.dbInstanceId, "Automated Backups",
        PassFail(db.hasBackupEnabled, "MEDIUM").status,
        PassFail(db.hasBackupEnabled, "MEDIUM").severity,
        IF db.hasBackupEnabled
        THEN "Automated backups enabled with " \o ToString(db.backupRetentionPeriod)
               \o " day retention"
        ELSE "Automated backups are NOT enabled. Enable for disaster recovery")

\* Faulty variant: a single-AZ deployment reported with severity MEDIUM
checkMultiAZMedium(db) ==
    Finding("RDS", db.dbInstanceId, "Multi-AZ Deployment",
        PassFail(db.multiAZ, "MEDIUM").status,
        PassFail(db.multiAZ, "MEDIUM").severity,
        IF db.multiAZ
        THEN "Multi-AZ deployment is enabled for high availability"
        ELSE "Multi-AZ deployment is NOT enabled. Consider for production workloads")

checkMultiAZ(db) ==
    Finding("RDS", db.dbInstanceId, "Multi-AZ Deployment",
        PassFail(db.multiAZ, "LOW").status,
        PassFail(db.multiAZ, "LOW").severity,
        IF db.multiAZ
        THEN "Multi-AZ deployment is enabled for high availability"
        ELSE "Multi-AZ deployment is NOT enabled. Consider for production workloads")

RdsChecks(db) ==
    <<checkPublicAccessibility(db), checkRDSEncryption(db),
      checkBackupEnabled(db), checkMultiAZ(db)>>

(***************************************************************************)
(* The four scanners.  A world is what the provider answers to the         *)
(* collector's listing calls: err = "" and the raw listing, or the name of *)
(* the error the listing call raises.  The collector is awaited before the *)
(* loop over the records, so when it raises nothing has been pushed yet.   *)
(***************************************************************************)
ResourceTypeOf(p) == p
SentinelId(p) == p \o "-SCANNER"

\* Faulty variant: the catch block reporting an ordinary failed check
ErrorFindingAsFail(p, label, err) ==
    Finding(ResourceTypeOf(p), SentinelId(p), p \o " Scan", "FAIL", "HIGH",
            "Error scanning " \o label \o ": " \o err)

\* the finding pushed by the scanner's catch block
ErrorFinding(p, label, err) ==
    Finding(ResourceTypeOf(p), SentinelId(p), p \o " Scan", "ERROR", "HIGH",
            "Error scanning " \o label \o ": " \o err)

scanS3Buckets(world) ==
    IF world.err = ""
    THEN LET buckets == getAllBucketsInfo(world.data)
         IN Concat([k \in 1..Len(buckets) |-> S3Checks(buckets[k])])
    ELSE Append(<<>>, ErrorFinding("S3", "S3 buckets", world.err))

scanEC2(world) ==
    IF world.err = ""
    THEN LET info == getEC2SecurityInfo(world.data)
             securityGroups == info.securityGroups
             instances == info.instances
         IN Concat([k \in 1..Len(securityGroups) |-> SgChecks(securityGroups[k])])
            \o Concat([k \in 1..Len(instances) |-> InstanceChecks(instances[k])])
    ELSE Append(<<>>, ErrorFinding("EC2", "EC2", world.err))

\* Faulty variant: the root account finding produced only when the account
\* has users
scanIAMRootWithUsers(world) ==
    IF world.err = ""
    THEN LET users == getAllUsersInfo(world.data.users)
             accountSummary == getAccountSummary(world.data.summary)
         IN (IF users = <<>> THEN <<>>
             ELSE <<checkRootMFA(accountSummary.accountMFAEnabled)>>)
            \o Concat([k \in 1..Len(users) |-> UserChecks(users[k])])
    ELSE Append(<<>>, ErrorFinding("IAM", "IAM", world.err))

scanIAM(world) ==
    IF world.err = ""
    THEN LET users == getAllUsersInfo(world.data.users)
             accountSummary == getAccountSummary(world.data.summary)
         IN <<checkRootMFA(accountSummary.accountMFAEnabled)>>
            \o Concat([k \in 1..Len(users) |-> UserChecks(users[k])])
    ELSE Append(<<>>, ErrorFinding("IAM", "IAM", world.err))

scanRDS(world) ==
    IF world.err = ""
    THEN LET instances == getAllRDSInfo(world.data)
         IN Concat([k \in 1..Len(instances) |-> RdsChecks(instances[k])])
    ELSE Append(<<>>, ErrorFinding("RDS", "RDS", world.err))

Scanner(p, world) ==
    CASE p = "S3" -> scanS3Buckets(world)
      [] p = "EC2" -> scanEC2(world)
      [] p = "IAM" -> scanIAM(world)
      [] p = "RDS" -> scanRDS(world)

(***************************************************************************)
(* Provider answers the scans of the model run against.                    *)
(***************************************************************************)
Ok(data) == [err |-> "", data |-> data]
Raises(err) == [err |-> err, data |-> <<>>]

BucketA ==
    [Name |-> "logs",
     location |-> [err |-> "", LocationConstraint |-> ""],
     pab |-> [err |-> "", BlockPublicAcls |-> TRUE, BlockPublicPolicy |-> TRUE,
              IgnorePublicAcls |-> TRUE, RestrictPublicBuckets |-> TRUE],
     enc |-> [err |-> "ServerSideEncryptionConfigurationNotFoundError", Rules |-> <<>>],
     ver |-> [err |-> "", Status |-> "Enabled", MFADelete |-> ""]]

GroupOpen ==
    [GroupId |-> "sg-1", GroupName |-> "web",
     IpPermissions |-> <<[IpProtocol |-> "tcp", FromPort |-> Some(22), ToPort |-> Some(22),
                          IpRanges |-> <<"0.0.0.0/0">>, Ipv6Ranges |-> <<>>]>>]

GroupClosed ==
    [GroupId |-> "sg-2", GroupName |-> "",
     IpPermissions |-> <<[IpProtocol |-> "tcp", FromPort |-> Some(443), ToPort |-> Some(443),
                          IpRanges |-> <<"10.0.0.0/8">>, Ipv6Ranges |-> <<>>]>>]

InstancePublic ==
    [InstanceId |-> "i-1", Name |-> "front", State |-> "running",
     PublicIpAddress |-> "3.3.3.3"]

InstanceTerminated ==
    [InstanceId |-> "i-2", Name |-> "", State |-> "terminated", PublicIpAddress |-> ""]

UserAdmin ==
    [UserName |-> "alice",
     mfa |-> [err |-> "", MFADevices |-> 0],
     login |-> [err |-> ""],
     policies |-> [err |-> "",
                   AttachedPolicies |-> <<"arn:aws:iam::aws:policy/AdministratorAccess">>]]

DbOpen ==
    [DBInstanceIdentifier |-> "db-1", PubliclyAccessible |-> TRUE,
     StorageEncrypted |-> FALSE, BackupRetentionPeriod |-> None, MultiAZ |-> FALSE]

\* a database instance named like the bucket BucketA
DbSafe ==
    [DBInstanceIdentifier |-> "logs", PubliclyAccessible |-> FALSE,
     StorageEncrypted |-> TRUE, BackupRetentionPeriod |-> Some(7), MultiAZ |-> TRUE]

Worlds(p) ==
    CASE p = "S3" -> {Ok(<<>>), Ok(<<BucketA>>), Raises("AccessDenied")}
      [] p = "EC2" -> {Ok([instances |-> <<InstancePublic, InstanceTerminated>>,
                           groups |-> <<GroupOpen, GroupClosed>>]),
                       Raises("UnauthorizedOperation")}
      [] p = "IAM" -> {Ok([users |-> <<UserAdmin>>, summary |-> [AccountMFAEnabled |-> None]]),
                       Raises("AccessDenied")}
      [] p = "RDS" -> {Ok(<<DbOpen, DbSafe>>), Raises("Throttling")}

\* the account the overlapping scans of SpecOverlap run against
OverlapWorld(p) ==
    CASE p = "S3" -> Ok(<<BucketA>>)
      [] p = "EC2" -> Ok([instances |-> <<>>, groups |-> <<GroupClosed>>])
      [] p = "IAM" -> Raises("AccessDenied")
      [] p = "RDS" -> Ok(<<>>)

(***************************************************************************)
(* Provider answers a single scanner is run against: every combination of  *)
(* the per-resource answers the collectors distinguish.                    *)
(***************************************************************************)
Cidrs4 == {<<>>, <<"0.0.0.0/0">>, <<"10.0.0.0/8">>, <<"0.0.0.0/1">>}
Cidrs6 == {<<>>, <<"::/0">>, <<"">>}

RawPermissions ==
    [IpProtocol : {"tcp", "-1", ""},
     FromPort : {None, Some(0), Some(22), Some(23)},
     ToPort : {None, Some(22), Some(3389)},
     IpRanges : Cidrs4,
     Ipv6Ranges : Cidrs6]

RawGroups ==
    {[GroupId |-> "sg-9", GroupName |-> "app", IpPermissions |-> <<perm>>] :
        perm \in RawPermissions}

\* InstanceId "" : an instance the provider returns without an id
RawInstances ==
    [InstanceId : {"i-9", ""}, Name : {"", "api"},
     State : {"running", "stopped", "terminated", "pending", "shutting-down",
              "stopping", ""},
     PublicIpAddress : {"", "3.3.3.3"}]

RawPublicAccessBlocks ==
    [err : {""}, BlockPublicAcls : BOOLEAN, BlockPublicPolicy : BOOLEAN,
     IgnorePublicAcls : BOOLEAN, RestrictPublicBuckets : BOOLEAN]
    \cup [err : {"NoSuchPublicAccessBlockConfiguration", "AccessDenied"},
          BlockPublicAcls : {FALSE}, BlockPublicPolicy : {FALSE},
          IgnorePublicAcls : {FALSE}, RestrictPublicBuckets : {FALSE}]

RawEncryptions ==
    {[err |-> "", Rules |-> <<"AES256">>],
     [err |-> "", Rules |-> <<>>],
     [err |-> "ServerSideEncryptionConfigurationNotFoundError", Rules |-> <<>>],
     [err |-> "AccessDenied", Rules |-> <<>>]}

RawVersionings ==
    {[err |-> "", Status |-> "Enabled", MFADelete |-> ""],
     [err |-> "", Status |-> "Suspended", MFADelete |-> ""],
     [err |-> "AccessDenied", Status |-> "", MFADelete |-> ""]}

RawBuckets ==
    [Name : {"data"},
     location : {[err |-> "", LocationConstraint |-> "eu-north-1"]},
     pab : RawPublicAccessBlocks, enc : RawEncryptions, ver : RawVersionings]

RawMFADevices ==
    {[err |-> "", MFADevices |-> 0], [err |-> "", MFADevices |-> 1],
     [err |-> "AccessDenied", MFADevices |-> 0]}

RawLoginProfiles ==
    {[err |-> ""], [err |-> "NoSuchEntityException"], [err |-> "Throttling"]}

ReadOnlyArn == "arn:aws:iam::aws:policy/ReadOnlyAccess"
\* ARNs that contain or resemble an entry of ADMIN_POLICY_ARNS
LookAlikeArns ==
    {"arn:aws:iam::aws:policy/AdministratorAccess-Amplify",
     "arn:aws:iam::123456789012:policy/AdministratorAccess",
     "arn:aws:iam::aws:policy/administratoraccess"}

RawAttachedPolicies ==
    {[err |-> "", AttachedPolicies |-> arns] :
        arns \in {<<>>, <<ReadOnlyArn>>}
                 \cup {<<a>> : a \in ADMIN_POLICY_ARNS \cup LookAlikeArns}
                 \cup {<<ReadOnlyArn, a>> : a \in ADMIN_POLICY_ARNS}}
    \cup {[err |-> "AccessDenied", AttachedPolicies |-> <<>>]}

RawUsers ==
    [UserName : {"bob"}, mfa : RawMFADevices, login : RawLoginProfiles,
     policies : RawAttachedPolicies]

RawAccountSummaries == [AccountMFAEnabled : {None, Some(0), Some(1)}]

RawDbInstances ==
    [DBInstanceIdentifier : {"db-9"}, PubliclyAccessible : BOOLEAN,
     StorageEncrypted : BOOLEAN,
     BackupRetentionPeriod : {None, Some(0), Some(1), Some(7), Some(35)},
     MultiAZ : BOOLEAN]

\* Accounts of up to MaxPerKind resources of each kind, each resource listed
\* once under an id of its own.
MaxPerKind == 2

NthBucket(k) == [BucketA EXCEPT !.Name = "logs-" \o ToString(k)]
NthGroup(k) ==
    [(IF k = 1 THEN GroupOpen ELSE GroupClosed) EXCEPT !.GroupId = "sg-" \o ToString(k)]
NthInstance(k, state) ==
    [InstancePublic EXCEPT !.InstanceId = "i-" \o ToString(k), !.State = state]
NthUser(k) == [UserAdmin EXCEPT !.UserName = "user-" \o ToString(k)]
NthDb(k) ==
    [(IF k = 1 THEN DbOpen ELSE DbSafe) EXCEPT !.DBInstanceIdentifier = "db-" \o ToString(k)]

InstanceStateLists ==
    {<<>>, <<"running">>, <<"terminated">>, <<"stopped", "pending">>,
     <<"running", "stopped">>}

RawAccounts ==
    {[buckets |-> [k \in 1..nb |-> NthBucket(k)],
      groups |-> [k \in 1..ng |-> NthGroup(k)],
      instances |-> [k \in 1..Len(states) |-> NthInstance(k, states[k])],
      users |-> [k \in 1..nu |-> NthUser(k)],
      summary |-> [AccountMFAEnabled |-> Some(1)],
      dbs |-> [k \in 1..nd |-> NthDb(k)]] :
        nb \in 0..MaxPerKind, ng \in 0..MaxPerKind, states \in InstanceStateLists,
        nu \in 0..MaxPerKind, nd \in 0..MaxPerKind}

(***************************************************************************)
(* Scan service (services/scanService.ts): pure parts.                     *)
(***************************************************************************)
RandomSuffixes == {"k3x9p2a", "q7w1e5r"}

\* `scan-${Date.now()}-${Math.random().toString(36).substring(2, 9)}`
generateScanId(ms, suffix) == "scan-" \o ToString(ms) \o "-" \o suffix

\* Faulty variant: a summary that forgets the ERROR findings
calculateSummaryDropsErrors(findings, scanTime) ==
    [totalResources |-> Len(findings),
     passed |-> Len(SelectSeq(findings, LAMBDA f : f.status = "PASS")),
     failed |-> Len(SelectSeq(findings, LAMBDA f : f.status = "FAIL")),
     errors |-> 0,
     highSeverity |-> Len(SelectSeq(findings, LAMBDA f : f.status = "FAIL" /\ f.severity = "HIGH")),
     criticalSeverity |->
         Len(SelectSeq(findings, LAMBDA f : f.status = "FAIL" /\ f.severity = "CRITICAL")),
     scanTime |-> scanTime]

\* Faulty variant: totalResources counting the resources the findings are
\* about instead of the findings
calculateSummaryCountsResources(findings, scanTime) ==
    [totalResources |-> Cardinality({findings[k].resourceId : k \in 1..Len(findings)}),
     passed |-> Len(SelectSeq(findings, LAMBDA f : f.status = "PASS")),
     failed |-> Len(SelectSeq(findings, LAMBDA f : f.status = "FAIL")),
     errors |-> Len(SelectSeq(findings, LAMBDA f : f.status = "ERROR")),
     highSeverity |-> Len(SelectSeq(findings, LAMBDA f : f.status = "FAIL" /\ f.severity = "HIGH")),
     criticalSeverity |->
         Len(SelectSeq(findings, LAMBDA f : f.status = "FAIL" /\ f.severity = "CRITICAL")),
     scanTime |-> scanTime]

\* Faulty variant: highSeverity counting every finding of severity HIGH,
\* whatever its status
calculateSummaryHighAnyStatus(findings, scanTime) ==
    [totalResources |-> Len(findings),
     passed |-> Len(SelectSeq(findings, LAMBDA f : f.status = "PASS")),
     failed |-> Len(SelectSeq(findings, LAMBDA f : f.status = "FAIL")),
     errors |-> Len(SelectSeq(findings, LAMBDA f : f.status = "ERROR")),
     highSeverity |-> Len(SelectSeq(findings, LAMBDA f : f.severity = "HIGH")),
     criticalSeverity |->
         Len(SelectSeq(findings, LAMBDA f : f.status = "FAIL" /\ f.severity = "CRITICAL")),
     scanTime |-> scanTime]

calculateSummary(findings, scanTime) ==
    [totalResources |-> Len(findings),
     passed |-> Len(SelectSeq(findings, LAMBDA f : f.status = "PASS")),
     failed |-> Len(SelectSeq(findings, LAMBDA f : f.status = "FAIL")),
     errors |-> Len(SelectSeq(findings, LAMBDA f : f.status = "ERROR")),
     highSeverity |-> Len(SelectSeq(findings, LAMBDA f : f.status = "FAIL" /\ f.severity = "HIGH")),
     criticalSeverity |->
         Len(SelectSeq(findings, LAMBDA f : f.status = "FAIL" /\ f.severity = "CRITICAL")),
     scanTime |-> scanTime]

\* the object built at the start of runFullScan (no endTime yet)
InitialScanResult(id, startTime) ==
    [scanId |-> id,
     summary |-> [totalResources |-> 0, passed |-> 0, failed |-> 0, errors |-> 0,
                  highSeverity |-> 0, criticalSeverity |-> 0, scanTime |-> startTime],
     findings |-> <<>>,
     startTime |-> startTime,
     endTime |-> Undefined,
     status |-> "running"]

\* what a scanner promise contributes after its .catch(err => [])
\* `at`: the turn in which the promise settled, where the order of settling
\* is followed (SpecOrder), else 0
Pending == [state |-> "pending", findings |-> <<>>, raised |-> FALSE, at |-> 0]
Fulfilled(findings, raised) ==
    [state |-> "fulfilled", findings |-> findings, raised |-> raised, at |-> 0]
Rejected == [state |-> "rejected", findings |-> <<>>, raised |-> FALSE, at |-> 0]

\* Faulty variant: a rejected scanner replaced by a synthetic ERROR finding
CatchScannerSynthetic(s) ==
    IF s.state = "rejected"
    THEN <<ErrorFinding("S3", "scanner", "rejected")>>
    ELSE s.findings

CatchScanner(s) == IF s.state = "rejected" THEN <<>> ELSE s.findings

\* Faulty variant: first-failure join: one rejected scanner drops every finding
CombineFindingsFailFast(results) ==
    IF \E p \in ProviderSet : results[p].state = "rejected"
    THEN <<>>
    ELSE results["S3"].findings \o results["EC2"].findings
         \o results["IAM"].findings \o results["RDS"].findings

\* Faulty variant: the results taken in the order the promises settled
CombineFindingsByCompletion(results) ==
    LET AtTurn(a) ==
            Concat([k \in 1..Len(Providers) |->
                       IF results[Providers[k]].at = a
                       THEN CatchScanner(results[Providers[k]])
                       ELSE <<>>])
    IN AtTurn(0) \o AtTurn(1) \o AtTurn(2) \o AtTurn(3) \o AtTurn(4)

\* [...s3Findings, ...ec2Findings, ...iamFindings, ...rdsFindings]
CombineFindings(results) ==
    CatchScanner(results["S3"]) \o CatchScanner(results["EC2"])
    \o CatchScanner(results["IAM"]) \o CatchScanner(results["RDS"])

\* Faulty variant: each finding stamped with its own read of the clock
StampFindingsPerFinding(findings, timestamp) ==
    [k \in 1..Len(findings) |->
        [findings[k] EXCEPT !.timestamp = DateOf(timestamp.ms + (IF k > 1 THEN 1 ELSE 0))]]

\* allFindings.forEach(finding => { finding.timestamp = timestamp })
StampFindings(findings, timestamp) ==
    [k \in 1..Len(findings) |-> [findings[k] EXCEPT !.timestamp = timestamp]]

\* Faulty variant: the start time reused as the end time
CompleteScanEndsAtStart(scanResult, allFindings, summary, endTime) ==
    [scanResult EXCEPT !.findings = allFindings, !.summary = summary,
                       !.endTime = scanResult.startTime, !.status = "completed"]

\* the try block's update of scanResult
CompleteScan(scanResult, allFindings, summary, endTime) ==
    [scanResult EXCEPT !.findings = allFindings, !.summary = summary,
                       !.endTime = endTime, !.status = "completed"]

\* Faulty variant: a catch block that forgets endTime
FailScanNoEndTime(scanResult, endTime) ==
    [scanResult EXCEPT !.status = "failed"]

\* the catch block's update of scanResult
FailScan(scanResult, endTime) ==
    [scanResult EXCEPT !.status = "failed", !.endTime = endTime]

\* Faulty variant: the merge's error escaping runFullScan
RunFullScanRethrows(throws) == IF throws THEN "threw" ELSE "returned"

\* The try/catch of runFullScan swallows what the merge throws, so the call
\* resolves on both paths.
RunFullScanSettles(throws) == "returned"

\* Faulty variant: the save placed inside the try block
SavesOnlyOnSuccess(scanResult) == IF scanResult.status = "completed" THEN 1 ELSE 0

\* saveScanResult(scanResult) follows the try/catch: called once on both paths.
SavesInitiated(scanResult) == 1

\* POST /scan: 200 with the result, 500 when runFullScan rejects
PostScanStatus(outcome) == IF outcome = "returned" THEN 200 ELSE 500

(***************************************************************************)
(* Result store (storage/dynamodb.ts).                                     *)
(***************************************************************************)
Null == [type |-> "null", ms |-> 0]

StoredFinding(f) == [f EXCEPT !.timestamp = DateToStorage(f.timestamp)]

prepareForStorage(scanResult) ==
    [scanId |-> scanResult.scanId,
     status |-> scanResult.status,
     startTime |-> DateToStorage(scanResult.startTime),
     endTime |-> DateToStorage(scanResult.endTime),
     summary |-> [scanResult.summary EXCEPT
                     !.scanTime = DateToStorage(scanResult.summary.scanTime)],
     findings |-> [k \in 1..Len(scanResult.findings) |-> StoredFinding(scanResult.findings[k])],
     recordType |-> "SCAN",
     createdAt |-> DateToStorage(scanResult.startTime),
     resourceId |-> "METADATA"]

\* prepareForStorage copies ({...scanResult}): the caller's object is left as it was
ObjectAfterSave(scanResult) == scanResult

\* marshall(item, { removeUndefinedValues: true })
marshall(item) ==
    IF item.endTime = Undefined
    THEN [k \in DOMAIN item \ {"endTime"} |-> item[k]]
    ELSE item

unmarshall(item) == item

\* PutItem under the key (scanId, "METADATA")
PutItem(tbl, item) == {x \in tbl : x.scanId # item.scanId} \cup {item}

\* Faulty variant: a catch block that rethrows
SaveSettlesRethrows(writeOk) == IF writeOk THEN "fulfilled" ELSE "rejected"

\* saveScanResult resolves whether or not the write succeeded (catch logs only)
SaveSettles(writeOk) == "fulfilled"

\* Faulty variant: an index that holds completed scans only
IndexPartitionCompletedOnly(tbl, pk) ==
    {x \in tbl : x.recordType = pk /\ x.status = "completed"}

\* the ScanHistoryIndex: partition key recordType, sort key createdAt
IndexPartition(tbl, pk) == {x \in tbl : x.recordType = pk}

\* Faulty variant: ScanIndexForward: true
OldestFirst(items) == {x \in items : \A y \in items : x.createdAt.ms <= y.createdAt.ms}

\* ScanIndexForward: false, Limit: 1 : an item with the greatest sort key
NewestFirst(items) == {x \in items : \A y \in items : y.createdAt.ms <= x.createdAt.ms}

\* the values getLatestScanResult can resolve with
getLatestScanResult(tbl, queryOk) ==
    IF ~queryOk THEN {Null}
    ELSE LET items == IndexPartition(tbl, "SCAN")
         IN IF items = {} THEN {Null} ELSE {unmarshall(x) : x \in NewestFirst(items)}

\* getScanResult(scanId)
getScanResult(tbl, id, getOk) ==
    IF ~getOk \/ ~(\E x \in tbl : x.scanId = id) THEN Null
    ELSE unmarshall(CHOOSE x \in tbl : x.scanId = id)

\* GET /results
ResultsStatus(result) == IF result = Null THEN 404 ELSE 200

(***************************************************************************)
(* State.                                                                  *)
(***************************************************************************)
VARIABLES
    now,         \* the wall clock, in ms
    pc,          \* per invocation of runFullScan: idle, scanning, returned, threw
    scanResult,  \* per invocation: the scanResult object (Null before the call)
    settled,     \* per invocation and provider: the scanner's promise
    aggThrew,    \* per invocation: whether the merge step threw
    saveCalls,   \* per invocation: number of saveScanResult calls made
    saveState,   \* per invocation: the promise of saveScanResult
    inflight,    \* per invocation: the item of the PutItem being sent (or Null)
    table,       \* the CloudPostureResults table: a set of items, one per scanId
    inserted,    \* scanIds in the order their PutItem succeeded
    resp,        \* the answer of the GET /results being served (or NoResponse)
    scanHttp,    \* per invocation: the HTTP status POST /scan answered (0: none yet)
    fetched,     \* the answer of the last getScanResult call (or NoFetch)
    probe        \* the last run of one scanner alone: provider answer, records, findings

vars == <<now, pc, scanResult, settled, aggThrew, saveCalls, saveState, inflight,
          table, inserted, resp, scanHttp, fetched, probe>>

NoResponse ==
    [status |-> 0, data |-> Null, queryOk |-> FALSE, afterReturn |-> FALSE,
     afterWrite |-> FALSE]

scanVars == <<now, pc, scanResult, settled, aggThrew, saveCalls, saveState, inflight,
              table, inserted, resp, scanHttp, fetched>>

NoFetch == [scanId |-> "", data |-> Null, getOk |-> FALSE, written |-> FALSE]

NoAccount == [AccountMFAEnabled |-> None]
NoProbe ==
    [provider |-> "", raw |-> <<>>, account |-> NoAccount, records |-> <<>>,
     findings |-> <<>>]

Init ==
    /\ now = 0
    /\ pc = [i \in Scans |-> "idle"]
    /\ scanResult = [i \in Scans |-> Null]
    /\ settled = [i \in Scans |-> [p \in ProviderSet |-> Pending]]
    /\ aggThrew = [i \in Scans |-> FALSE]
    /\ saveCalls = [i \in Scans |-> 0]
    /\ saveState = [i \in Scans |-> "none"]
    /\ inflight = [i \in Scans |-> Null]
    /\ table = {}
    /\ inserted = <<>>
    /\ resp = NoResponse
    /\ scanHttp = [i \in Scans |-> 0]
    /\ fetched = NoFetch
    /\ probe = NoProbe

\* Faulty variant: a first-failure join, which is left as soon as one task fails
AnyFailedOrAllSettled(i) ==
    \/ \E p \in ProviderSet : settled[i][p].state = "rejected" \/ settled[i][p].raised
    \/ \A p \in ProviderSet : settled[i][p].state # "pending"

\* await Promise.all([...]) over promises that cannot reject (each has its
\* .catch): it resumes when the last of the four has settled
AllSettled(i) == \A p \in ProviderSet : settled[i][p].state # "pending"

(***************************************************************************)
(* Actions.                                                                *)
(***************************************************************************)
\* The instants a read of the clock can return: the clock never runs backwards,
\* and any time may have passed since the last read.
ClockReads(last) == last..MaxClock

\* The same, for a read that follows the last one within one synchronous run
\* so short that the clock cannot have moved.
SameInstant(last) == {last}

\* A read of the clock following the read of `last`: `suspended` says whether
\* time may have passed in between.
NextRead(suspended, last) == IF suspended THEN ClockReads(last) ELSE SameInstant(last)

\* runFullScan up to its await: the id (Date.now()), the start time (new Date()),
\* the initial object, and the four scanners started.
StartScan(i, suspended) ==
    /\ pc[i] = "idle"
    /\ \E suffix \in RandomSuffixes :
       \E idTime \in ClockReads(now) :
       \E start \in NextRead(suspended, idTime) :
          /\ now' = start
          /\ scanResult' = [scanResult EXCEPT
                ![i] = InitialScanResult(generateScanId(idTime, suffix), DateOf(start))]
    /\ pc' = [pc EXCEPT ![i] = "scanning"]
    /\ UNCHANGED <<settled, aggThrew, saveCalls, saveState, inflight, table, inserted,
                   resp, scanHttp, fetched, probe>>

\* scanner p of invocation i resolves: its collector answered or raised
ScannerResolves(i, p) ==
    /\ pc[i] = "scanning"
    /\ settled[i][p].state = "pending"
    /\ \E world \in Worlds(p) :
          settled' = [settled EXCEPT
                ![i][p] = Fulfilled(Scanner(p, world), world.err # "")]
    /\ UNCHANGED <<now, pc, scanResult, aggThrew, saveCalls, saveState, inflight, table,
                   inserted, resp, scanHttp, fetched, probe>>

\* the promise of scanner p rejects (an error escaping the scanner's catch)
ScannerRejects(i, p) ==
    /\ pc[i] = "scanning"
    /\ settled[i][p].state = "pending"
    /\ settled' = [settled EXCEPT ![i][p] = Rejected]
    /\ UNCHANGED <<now, pc, scanResult, aggThrew, saveCalls, saveState, inflight, table,
                   inserted, resp, scanHttp, fetched, probe>>

\* the four scanners of invocation i resolve against the fixed account
ScannersSettle(i) ==
    /\ pc[i] = "scanning"
    /\ \A p \in ProviderSet : settled[i][p].state = "pending"
    /\ settled' = [settled EXCEPT
          ![i] = [p \in ProviderSet |->
                     Fulfilled(Scanner(p, OverlapWorld(p)), OverlapWorld(p).err # "")]]
    /\ UNCHANGED <<now, pc, scanResult, aggThrew, saveCalls, saveState, inflight, table,
                   inserted, resp, scanHttp, fetched, probe>>

\* the promise of scanner p settles, resolved or rejected, as the next one of
\* invocation i to do so
ScannerSettlesInTurn(i, p) ==
    /\ pc[i] = "scanning"
    /\ settled[i][p].state = "pending"
    /\ LET turn == Cardinality({q \in ProviderSet : settled[i][q].state # "pending"}) + 1
       IN \E outcome \in {Fulfilled(Scanner(p, world), world.err # "") : world \in Worlds(p)}
                          \cup {Rejected} :
             settled' = [settled EXCEPT ![i][p] = [outcome EXCEPT !.at = turn]]
    /\ UNCHANGED <<now, pc, scanResult, aggThrew, saveCalls, saveState, inflight, table,
                   inserted, resp, scanHttp, fetched, probe>>

\* runFullScan after Promise.all: merge, stamp, summarise, finish (or the catch
\* block when the merge throws), the call of saveScanResult up to its await of
\* the PutItem, the return, and the answer of POST /scan.
Aggregate(i, suspended) ==
    /\ pc[i] = "scanning"
    /\ AllSettled(i)
    /\ \E throws \in BOOLEAN :
       \E t1 \in ClockReads(now) :
       \E t2 \in NextRead(suspended, t1) :
       \E t3 \in NextRead(suspended, t2) :
          LET timestamp == DateOf(t1)
              scanTime == DateOf(t2)
              endTime == DateOf(t3)
              allFindings == StampFindings(CombineFindings(settled[i]), timestamp)
              final == IF throws
                       THEN FailScan(scanResult[i], endTime)
                       ELSE CompleteScan(scanResult[i], allFindings,
                                         calculateSummary(allFindings, scanTime), endTime)
              outcome == RunFullScanSettles(throws)
              saves == IF outcome = "returned" THEN SavesInitiated(final) ELSE 0
          IN /\ throws => t1 = t3
             /\ now' = t3
             /\ aggThrew' = [aggThrew EXCEPT ![i] = throws]
             /\ scanResult' = [scanResult EXCEPT ![i] = ObjectAfterSave(final)]
             /\ pc' = [pc EXCEPT ![i] = outcome]
             /\ saveCalls' = [saveCalls EXCEPT ![i] = @ + saves]
             /\ saveState' = [saveState EXCEPT
                   ![i] = IF saves > 0 THEN "pending" ELSE @]
             /\ inflight' = [inflight EXCEPT
                   ![i] = IF saves > 0 THEN marshall(prepareForStorage(final)) ELSE @]
             /\ scanHttp' = [scanHttp EXCEPT ![i] = PostScanStatus(outcome)]
    /\ UNCHANGED <<settled, table, inserted, resp, fetched, probe>>

\* the PutItem of invocation i completes or fails; saveScanResult settles
StoreWrite(i) ==
    /\ saveState[i] = "pending"
    /\ \E writeOk \in BOOLEAN :
          /\ table' = IF writeOk THEN PutItem(table, inflight[i]) ELSE table
          /\ inserted' = IF writeOk THEN Append(inserted, inflight[i].scanId) ELSE inserted
          /\ saveState' = [saveState EXCEPT ![i] = SaveSettles(writeOk)]
    /\ inflight' = [inflight EXCEPT ![i] = Null]
    /\ UNCHANGED <<now, pc, scanResult, settled, aggThrew, saveCalls, resp, scanHttp, fetched, probe>>

\* GET /results is served: getLatestScan queries the index
GetLatest ==
    /\ resp = NoResponse
    /\ \E queryOk \in BOOLEAN :
          \E result \in getLatestScanResult(table, queryOk) :
             resp' = [status |-> ResultsStatus(result), data |-> result,
                      queryOk |-> queryOk,
                      afterReturn |-> \E i \in Scans : pc[i] = "returned",
                      afterWrite |-> inserted # <<>>]
    /\ UNCHANGED <<now, pc, scanResult, settled, aggThrew, saveCalls, saveState,
                   inflight, table, inserted, scanHttp, fetched, probe>>

\* the client has received the answer of GET /results
ResultsDelivered ==
    /\ resp # NoResponse
    /\ resp' = NoResponse
    /\ UNCHANGED <<now, pc, scanResult, settled, aggThrew, saveCalls, saveState,
                   inflight, table, inserted, scanHttp, fetched, probe>>

\* getScanResult(scanId), called with the id of a scan runFullScan returned
GetById(i) ==
    /\ pc[i] = "returned"
    /\ \E getOk \in BOOLEAN :
          fetched' = [scanId |-> scanResult[i].scanId,
                      data |-> getScanResult(table, scanResult[i].scanId, getOk),
                      getOk |-> getOk,
                      written |-> \E x \in table : x.scanId = scanResult[i].scanId]
    /\ UNCHANGED <<now, pc, scanResult, settled, aggThrew, saveCalls, saveState,
                   inflight, table, inserted, resp, scanHttp, probe>>

\* scanS3Buckets() run alone against an account holding one bucket
RunScanS3 ==
    /\ \E bucket \in RawBuckets :
          probe' = [provider |-> "S3", raw |-> <<bucket>>, account |-> NoAccount,
                    records |-> getAllBucketsInfo(<<bucket>>),
                    findings |-> scanS3Buckets(Ok(<<bucket>>))]
    /\ UNCHANGED scanVars

\* scanEC2() run alone against an account holding one security group
RunScanEC2 ==
    /\ \E sg \in RawGroups :
          LET raw == [instances |-> <<>>, groups |-> <<sg>>]
          IN probe' = [provider |-> "EC2", raw |-> <<sg>>, account |-> NoAccount,
                       records |-> getEC2SecurityInfo(raw).securityGroups,
                       findings |-> scanEC2(Ok(raw))]
    /\ UNCHANGED scanVars

\* scanEC2() run alone against an account holding one instance and no
\* security group
RunScanEC2Instances ==
    /\ \E instance \in RawInstances :
          LET raw == [instances |-> <<instance>>, groups |-> <<>>]
          IN probe' = [provider |-> "EC2/instances", raw |-> <<instance>>,
                       account |-> NoAccount,
                       records |-> getEC2SecurityInfo(raw).instances,
                       findings |-> scanEC2(Ok(raw))]
    /\ UNCHANGED scanVars

\* scanIAM() run alone against an account holding one user
RunScanIAM ==
    /\ \E user \in RawUsers : \E summaryMap \in RawAccountSummaries :
          probe' = [provider |-> "IAM", raw |-> <<user>>, account |-> summaryMap,
                    records |-> getAllUsersInfo(<<user>>),
                    findings |-> scanIAM(Ok([users |-> <<user>>, summary |-> summaryMap]))]
    /\ UNCHANGED scanVars

\* scanRDS() run alone against an account holding one database instance
RunScanRDS ==
    /\ \E instance \in RawDbInstances :
          probe' = [provider |-> "RDS", raw |-> <<instance>>, account |-> NoAccount,
                    records |-> getAllRDSInfo(<<instance>>),
                    findings |-> scanRDS(Ok(<<instance>>))]
    /\ UNCHANGED scanVars

\* the four scanners run against one account, none of whose collectors fails,
\* their findings concatenated as runFullScan concatenates them
RunScanAccount ==
    /\ \E acct \in RawAccounts :
          probe' = [provider |-> "ALL", raw |-> <<acct>>, account |-> acct.summary,
                    records |-> <<>>,
                    findings |->
                        scanS3Buckets(Ok(acct.buckets))
                        \o scanEC2(Ok([instances |-> acct.instances,
                                       groups |-> acct.groups]))
                        \o scanIAM(Ok([users |-> acct.users, summary |-> acct.summary]))
                        \o scanRDS(Ok(acct.dbs))]
    /\ UNCHANGED scanVars

(***************************************************************************)
(* Spec: one invocation of runFullScan, its four scanners settling in any  *)
(* order against any of the provider answers, the store write, and reads   *)
(* of the stored scan by its id.                                           *)
(***************************************************************************)
Next ==
    \/ StartScan(1, TRUE)
    \/ \E p \in ProviderSet : ScannerResolves(1, p)
    \/ \E p \in ProviderSet : ScannerRejects(1, p)
    \/ Aggregate(1, TRUE)
    \/ StoreWrite(1)
    \/ GetById(1)

Spec == Init /\ [][Next]_vars

(***************************************************************************)
(* SpecOverlap: two invocations of runFullScan overlapping in any          *)
(* way.  The scanners of one invocation touch nothing but that             *)
(* invocation's own promises, so they settle here in one step; and the     *)
(* clock moves only while an invocation is suspended.                      *)
(***************************************************************************)
NextOverlap ==
    \/ \E i \in Scans : StartScan(i, FALSE)
    \/ \E i \in Scans : ScannersSettle(i)
    \/ \E i \in Scans : Aggregate(i, FALSE)
    \/ \E i \in Scans : StoreWrite(i)
    \/ GetLatest
    \/ ResultsDelivered

SpecOverlap == Init /\ [][NextOverlap]_vars

(***************************************************************************)
(* SpecOrder: one invocation of runFullScan at one instant, the order in   *)
(* which its four scanner promises settle being followed.                  *)
(***************************************************************************)
NextOrder ==
    \/ StartScan(1, FALSE)
    \/ \E p \in ProviderSet : ScannerSettlesInTurn(1, p)
    \/ Aggregate(1, FALSE)

SpecOrder == Init /\ [][NextOrder]_vars

(***************************************************************************)
(* SpecScanners: each scanner run alone, its collector and checks applied  *)
(* to every provider answer of the Raw sets.                               *)
(***************************************************************************)
NextScanners ==
    \/ RunScanS3
    \/ RunScanEC2
    \/ RunScanEC2Instances
    \/ RunScanIAM
    \/ RunScanRDS
    \/ RunScanAccount

SpecScanners == Init /\ [][NextScanners]_vars

(***************************************************************************)
(* Properties.                                                             *)
(***************************************************************************)
Terminal == {"completed", "failed"}
Returned(i) == pc[i] = "returned"
Started(i) == scanResult[i] # Null
WithoutTimestamps(findings) ==
    [k \in 1..Len(findings) |-> [findings[k] EXCEPT !.timestamp = Undefined]]

\* C1: every summary a ScanResult carries, on the completed and on the failed
\* path and for any mix of PASS, FAIL and ERROR findings, satisfies
\* passed + failed + errors = totalResources.
C1_SummaryAddsUp ==
    \A i \in Scans :
        Started(i) =>
            LET m == scanResult[i].summary
            IN m.passed + m.failed + m.errors = m.totalResources

C1_Witness ==
    /\ Returned(1)
    /\ scanResult[1].status = "completed"
    /\ scanResult[1].summary.passed > 0
    /\ scanResult[1].summary.failed > 0
    /\ scanResult[1].summary.errors > 0

\* C2: in a returned ScanResult every finding carries a timestamp, and it is
\* the same Date for all of them, synthetic ERROR findings included.
C2_UniformTimestamp ==
    \A i \in Scans :
        Returned(i) =>
            LET fs == scanResult[i].findings
            IN \A k \in 1..Len(fs) :
                  /\ IsDate(fs[k].timestamp)
                  /\ fs[k].timestamp = fs[1].timestamp

C2_Witness ==
    /\ Returned(1)
    /\ \E k, l \in 1..Len(scanResult[1].findings) :
          /\ scanResult[1].findings[k].status = "ERROR"
          /\ scanResult[1].findings[l].status = "PASS"
          /\ scanResult[1].findings[l].resourceType # scanResult[1].findings[k].resourceType

\* C3: runFullScan never rejects: whatever the scanners did, whether or not the
\* merge threw and whether or not the store write failed, the call resolves
\* with a ScanResult (and POST /scan answers 200); the merge having thrown
\* shows exactly as status = failed.
C3_NeverRejects ==
    \A i \in Scans :
        /\ pc[i] \in {"idle", "scanning", "returned"}
        /\ scanHttp[i] \in {0, 200}
        /\ Returned(i) =>
              /\ scanHttp[i] = 200
              /\ scanResult[i].status \in Terminal
              /\ (scanResult[i].status = "failed") <=> aggThrew[i]

C3_Witness ==
    /\ Returned(1)
    /\ aggThrew[1]
    /\ \E p \in ProviderSet : settled[1][p].state = "rejected"
    /\ \E p \in ProviderSet : settled[1][p].raised
    /\ saveState[1] = "fulfilled"
    /\ table = {}

\* C4: when a provider's collector raises, its scanner still resolves, with
\* exactly one finding: status ERROR, severity HIGH, resourceId the provider's
\* sentinel; and a scanner output holding its sentinel holds nothing else.
C4_SentinelOnly ==
    \A i \in Scans : \A p \in ProviderSet :
        LET out == settled[i][p]
        IN /\ out.raised =>
                /\ out.state = "fulfilled"
                /\ Len(out.findings) = 1
                /\ out.findings[1].status = "ERROR"
                /\ out.findings[1].severity = "HIGH"
                /\ out.findings[1].resourceId = p \o "-SCANNER"
           /\ (\E k \in 1..Len(out.findings) :
                  /\ out.findings[k].resourceId = p \o "-SCANNER"
                  /\ out.findings[k].status = "ERROR")
                => Len(out.findings) = 1
           /\ (\E k \in 1..Len(out.findings) : out.findings[k].status = "ERROR")
                => out.raised

C4_Witness ==
    \A p \in ProviderSet : settled[1][p].raised

\* C5: what a provider contributes to the ScanResult depends on that provider
\* alone: unless the merge itself threw, the scan is completed and, for each
\* provider, the findings of that provider in the result are exactly the ones
\* its own scanner resolved with (none if its promise rejected), in order,
\* whatever happened to the other three.
ProviderOfFinding(f) ==
    IF f.resourceType = "SECURITY_GROUP" THEN "EC2" ELSE f.resourceType

C5_ProvidersIsolated ==
    \A i \in Scans :
        (Returned(i) /\ ~aggThrew[i]) =>
            /\ scanResult[i].status = "completed"
            /\ \A p \in ProviderSet :
                  WithoutTimestamps(SelectSeq(scanResult[i].findings,
                                              LAMBDA f : ProviderOfFinding(f) = p))
                  = IF settled[i][p].state = "rejected" THEN <<>>
                    ELSE settled[i][p].findings

C5_Witness ==
    /\ Returned(1)
    /\ scanResult[1].status = "completed"
    /\ settled[1]["IAM"].state = "rejected"
    /\ settled[1]["S3"].raised
    /\ Len(settled[1]["EC2"].findings) > 1
    /\ Len(settled[1]["RDS"].findings) > 1

\* C6: a ScanResult starts as running with no findings, its status changes
\* only from running to completed or failed, and what runFullScan returns or
\* hands to the store has a terminal status and an endTime.
C6_StateOk(i) ==
    /\ pc[i] = "idle" => scanResult[i] = Null
    /\ pc[i] = "scanning" =>
          /\ scanResult[i].status = "running"
          /\ scanResult[i].findings = <<>>
          /\ scanResult[i].endTime = Undefined
    /\ pc[i] \notin {"idle", "scanning"} =>
          /\ scanResult[i].status \in Terminal
          /\ IsDate(scanResult[i].endTime)
    /\ inflight[i] # Null =>
          /\ inflight[i].status \in Terminal
          /\ "endTime" \in DOMAIN inflight[i]
          /\ inflight[i].endTime.type = "string"

C6_Lifecycle ==
    [][\A i \in Scans :
          /\ C6_StateOk(i)'
          /\ (Started(i) /\ scanResult[i].status # scanResult'[i].status) =>
                /\ scanResult[i].status = "running"
                /\ scanResult'[i].status \in Terminal]_vars

C6_Witness ==
    /\ Returned(1)
    /\ scanResult[1].status = "failed"
    /\ inflight[1] # Null

\* C7: an invocation of runFullScan calls saveScanResult exactly once, on the
\* completed and on the failed path alike, with a result that is terminal;
\* once the save has settled nothing more is written for that scan.
C7_SavedOnce ==
    \A i \in Scans :
        /\ saveCalls[i] = IF Returned(i) THEN 1 ELSE 0
        /\ saveCalls[i] > 0 => scanResult[i].status \in Terminal
        /\ saveState[i] = "none" <=> saveCalls[i] = 0
        /\ saveState[i] # "pending" => inflight[i] = Null

C7_Witness ==
    /\ Returned(1)
    /\ scanResult[1].status = "failed"
    /\ saveCalls[1] = 1
    /\ saveState[1] = "fulfilled"

\* C8: saveScanResult never rejects, and the ScanResult runFullScan returned
\* is not touched by the save: it keeps exactly its own keys with Date-valued
\* times, and it is the same after the write has succeeded or failed.
ScanResultKeys == {"scanId", "summary", "findings", "startTime", "endTime", "status"}

C8_ReturnedShape(r) ==
    /\ DOMAIN r = ScanResultKeys
    /\ IsDate(r.startTime)
    /\ IsDate(r.endTime)
    /\ IsDate(r.summary.scanTime)
    /\ \A k \in 1..Len(r.findings) : IsDate(r.findings[k].timestamp)

C8_SaveFailureSwallowed ==
    [][\A i \in Scans :
          /\ saveState'[i] \in {"none", "pending", "fulfilled"}
          /\ Returned(i)' => C8_ReturnedShape(scanResult'[i])
          /\ Returned(i) => scanResult'[i] = scanResult[i] /\ Returned(i)']_vars

C8_Witness ==
    /\ Returned(1)
    /\ scanResult[1].status = "completed"
    /\ Len(scanResult[1].findings) > 0
    /\ saveState[1] = "fulfilled"
    /\ table = {}

\* The GET /results being answered in this step.
LatestAnswered == resp = NoResponse /\ resp' # NoResponse

LastInsertedNewest(tbl, order) ==
    LET newest == {x \in tbl : \A y \in tbl : y.startTime.ms <= x.startTime.ms}
        at(id) == CHOOSE k \in 1..Len(order) :
                     /\ order[k] = id
                     /\ \A l \in 1..Len(order) : order[l] = id => l <= k
    IN CHOOSE id \in {x.scanId : x \in newest} :
          \A other \in {x.scanId : x \in newest} : at(other) <= at(id)

FetchedStored == fetched.data # Null

\* C11 as stated: what getScanResult(r.scanId) yields after saveScanResult(r)
\* is field-for-field equal to r: the same keys, and startTime, endTime,
\* summary.scanTime and every finding timestamp the same Date values.
C11_RoundTripEqual ==
    FetchedStored =>
        /\ DOMAIN fetched.data = DOMAIN scanResult[1]
        /\ fetched.data = scanResult[1]

\* What the round trip does yield: the item prepareForStorage built, its times
\* ISO strings of the same instants and the three storage keys added.
C11_RoundTripStored ==
    FetchedStored =>
        /\ fetched.getOk /\ fetched.written
        /\ fetched.data = marshall(prepareForStorage(scanResult[1]))
        /\ DOMAIN fetched.data = ScanResultKeys \cup {"recordType", "createdAt", "resourceId"}
        /\ fetched.data.startTime = toISOString(scanResult[1].startTime)
        /\ fetched.data.endTime = toISOString(scanResult[1].endTime)
        /\ fetched.data.summary.scanTime = toISOString(scanResult[1].summary.scanTime)
        /\ \A k \in 1..Len(scanResult[1].findings) :
              fetched.data.findings[k] =
                 [scanResult[1].findings[k] EXCEPT
                     !.timestamp = toISOString(scanResult[1].findings[k].timestamp)]

C11_Witness ==
    /\ FetchedStored
    /\ scanResult[1].status = "completed"
    /\ Len(fetched.data.findings) > 1
    /\ fetched.data.scanId = scanResult[1].scanId

\* The scanIds whose PutItem has succeeded.
WrittenIds == {inserted[k] : k \in 1..Len(inserted)}
SameScanId(i, j) == scanResult[i].scanId = scanResult[j].scanId

\* C12 as stated: any two invocations of runFullScan, also two started in the
\* same millisecond, get distinct scanIds, and every successful save leaves
\* its own record in the table: none is overwritten by another scan's save.
C12_DistinctScanIds ==
    /\ \A i, j \in Scans :
          (i # j /\ Started(i) /\ Started(j)) => ~SameScanId(i, j)
    /\ Cardinality(table) = Len(inserted)

\* What does hold: the table keeps one record per scanId written; two
\* invocations whose ids differ (another millisecond or another random suffix)
\* each keep their own record, whatever the order of their saves; only a save
\* under the same scanId replaces a record.
C12_OwnKeyWhenDistinct ==
    /\ {x.scanId : x \in table} = WrittenIds
    /\ Cardinality(table) = Cardinality(WrittenIds)
    /\ \A i \in Scans :
          (/\ Started(i)
           /\ scanResult[i].scanId \in WrittenIds
           /\ \A j \in Scans \ {i} : Started(j) => ~SameScanId(i, j))
          => marshall(prepareForStorage(scanResult[i])) \in table

C12_Witness ==
    /\ Len(inserted) = 2
    /\ Cardinality(table) = 2
    /\ scanResult[1].startTime = scanResult[2].startTime
    /\ scanResult[1].status # scanResult[2].status

\* The merge of invocation i has started (it runs to the return without
\* suspending).
MergeStarted(i) == pc[i] \notin {"idle", "scanning"}

\* C13: the merge starts only after all four scanner tasks have settled, with
\* findings or with a caught failure: while some scanner is still running the
\* ScanResult is still the running one, however early another scanner failed.
C13_MergeAfterAllSettled ==
    \A i \in Scans :
        /\ MergeStarted(i) =>
              \A p \in ProviderSet : settled[i][p].state \in {"fulfilled", "rejected"}
        /\ (\E p \in ProviderSet : settled[i][p].state = "pending") =>
              (Started(i) => /\ scanResult[i].status = "running"
                             /\ scanResult[i].findings = <<>>)

C13_Witness ==
    /\ pc[1] = "scanning"
    /\ settled[1]["S3"].state = "rejected"
    /\ settled[1]["IAM"].raised
    /\ settled[1]["EC2"].state = "pending"
    /\ settled[1]["RDS"].state = "pending"
    /\ scanResult[1].status = "running"

\* The security group scanEC2 was run against, its one permission, and the
\* source CIDRs of that permission in the order the rules are parsed.
ProbedGroup == probe.raw[1]
ProbedPermission == ProbedGroup.IpPermissions[1]
ProbedSources == ProbedPermission.IpRanges \o ProbedPermission.Ipv6Ranges
TheWorld == {"0.0.0.0/0", "::/0"}

\* C14: every source CIDR of a permission yields one parsed rule, and the rule
\* is open-to-world iff its source is exactly 0.0.0.0/0 or ::/0, whatever the
\* protocol and the port range; 10.0.0.0/8, 0.0.0.0/1 and "" never are.
C14_OpenToWorldExactCidr ==
    probe.provider = "EC2" =>
        LET rules == probe.records[1].inboundRules
        IN /\ Len(rules) = Len(ProbedSources)
           /\ \A k \in 1..Len(rules) :
                 /\ rules[k].source = ProbedSources[k]
                 /\ rules[k].isOpenToWorld <=> ProbedSources[k] \in TheWorld
           /\ probe.records[1].hasOpenToWorld
                 <=> \E k \in 1..Len(ProbedSources) : ProbedSources[k] \in TheWorld

C14_Witness ==
    /\ probe.provider = "EC2"
    /\ ProbedPermission.IpProtocol = "-1"
    /\ ProbedSources = <<"0.0.0.0/1", "">>
    /\ Len(probe.records[1].inboundRules) = 2
    /\ ~probe.records[1].hasOpenToWorld

\* Whether the probed permission opens `port` to the world, read off the
\* provider's answer.
PermissionOpensPort(port) ==
    /\ \E k \in 1..Len(ProbedSources) : ProbedSources[k] \in TheWorld
    /\ \/ ProbedPermission.IpProtocol = "-1"
       \/ /\ (IF ProbedPermission.FromPort.has THEN ProbedPermission.FromPort.v ELSE 0)
                <= port
          /\ port <= (IF ProbedPermission.ToPort.has THEN ProbedPermission.ToPort.v
                      ELSE 65535)

\* C15: hasOpenSSH (port 22) and hasOpenRDP (port 3389) hold iff some rule is
\* open-to-world and has protocol -1 or a range fromPort..toPort (0 and 65535
\* when absent) containing the port; an open rule of protocol -1 sets both.
C15_PortOpenIffRule ==
    probe.provider = "EC2" =>
        /\ probe.records[1].hasOpenSSH <=> PermissionOpensPort(22)
        /\ probe.records[1].hasOpenRDP <=> PermissionOpensPort(3389)
        /\ probe.records[1].hasOpenSSH
              = hasPortOpenToWorld(probe.records[1].inboundRules, 22)
        /\ probe.records[1].hasOpenRDP
              = hasPortOpenToWorld(probe.records[1].inboundRules, 3389)

C15_Witness ==
    /\ probe.provider = "EC2"
    /\ ProbedPermission.IpProtocol = "-1"
    /\ ProbedPermission.FromPort = Some(23)
    /\ ProbedPermission.ToPort = Some(22)
    /\ ProbedSources = <<"::/0">>
    /\ probe.records[1].hasOpenSSH
    /\ probe.records[1].hasOpenRDP

\* The finding of the probed resource for one check.
ProbedFinding(check) ==
    probe.findings[CHOOSE k \in 1..Len(probe.findings) : probe.findings[k].checkName = check]

\* A sub-lookup that failed with a provider error, as opposed to one that
\* answered, or answered that the thing asked for is not configured.
ProviderError(answer) == answer.err \in {"AccessDenied", "Throttling"}

RecordEmittedNoError ==
    /\ Len(probe.records) = 1
    /\ \A k \in 1..Len(probe.findings) : probe.findings[k].status # "ERROR"

\* C16 as stated: whichever per-resource sub-lookup fails with a provider
\* error, the record is still emitted, no ERROR finding is produced, and every
\* check that depends on the failed sub-lookup reports FAIL, never PASS.
C16_SubLookupsFailClosed ==
    /\ probe.provider = "S3" =>
          /\ RecordEmittedNoError
          /\ ProviderError(probe.raw[1].pab) =>
                ProbedFinding("Public Access Block").status = "FAIL"
          /\ ProviderError(probe.raw[1].enc) =>
                ProbedFinding("Server-Side Encryption").status = "FAIL"
          /\ ProviderError(probe.raw[1].ver) =>
                ProbedFinding("Versioning").status = "FAIL"
    /\ probe.provider = "IAM" =>
          /\ RecordEmittedNoError
          /\ ProviderError(probe.raw[1].mfa) =>
                ProbedFinding("MFA Enabled").status = "FAIL"
          /\ ProviderError(probe.raw[1].login) =>
                ProbedFinding("MFA Enabled").status = "FAIL"
          /\ ProviderError(probe.raw[1].policies) =>
                ProbedFinding("Admin Access Check").status = "FAIL"

\* What does hold: the record is emitted and no ERROR finding is produced; the
\* three S3 sub-lookups fail closed; a failed MFA-device lookup gives FAIL
\* exactly when the login-profile lookup succeeded; but a failed login-profile
\* lookup gives MFA Enabled = PASS and a failed attached-policies lookup gives
\* Admin Access Check = PASS.
C16_SubLookupDefaults ==
    /\ probe.provider = "S3" =>
          /\ RecordEmittedNoError
          /\ ProviderError(probe.raw[1].pab) =>
                ProbedFinding("Public Access Block").status = "FAIL"
          /\ ProviderError(probe.raw[1].enc) =>
                ProbedFinding("Server-Side Encryption").status = "FAIL"
          /\ ProviderError(probe.raw[1].ver) =>
                ProbedFinding("Versioning").status = "FAIL"
    /\ probe.provider = "IAM" =>
          /\ RecordEmittedNoError
          /\ ProviderError(probe.raw[1].mfa) =>
                (ProbedFinding("MFA Enabled").status = "FAIL"
                   <=> probe.raw[1].login.err = "")
          /\ ProviderError(probe.raw[1].login) =>
                ProbedFinding("MFA Enabled").status = "PASS"
          /\ ProviderError(probe.raw[1].policies) =>
                ProbedFinding("Admin Access Check").status = "PASS"

C16_Witness ==
    /\ probe.provider = "IAM"
    /\ ProviderError(probe.raw[1].login)
    /\ ProviderError(probe.raw[1].policies)
    /\ probe.raw[1].mfa = [err |-> "", MFADevices |-> 0]
    /\ ProbedFinding("MFA Enabled").status = "PASS"
    /\ ProbedFinding("Admin Access Check").status = "PASS"

\* The record the collector built for the probed resource.
ProbedRecord == probe.records[1]

\* C17: the Public Access Block finding of a bucket is PASS with severity LOW
\* iff all four flags of its record are true, and FAIL with severity HIGH as
\* soon as one is false; the flags are the provider's, false when not answered.
C17_PublicAccessBlockAllFour ==
    probe.provider = "S3" =>
        LET flags == ProbedRecord.publicAccess
            answer == probe.raw[1].pab
            allFour == /\ flags.blockPublicAcls /\ flags.blockPublicPolicy
                       /\ flags.ignorePublicAcls /\ flags.restrictPublicBuckets
            finding == ProbedFinding("Public Access Block")
        IN /\ flags.blockPublicAcls = (answer.err = "" /\ answer.BlockPublicAcls)
           /\ flags.blockPublicPolicy = (answer.err = "" /\ answer.BlockPublicPolicy)
           /\ flags.ignorePublicAcls = (answer.err = "" /\ answer.IgnorePublicAcls)
           /\ flags.restrictPublicBuckets = (answer.err = "" /\ answer.RestrictPublicBuckets)
           /\ allFour => finding.status = "PASS" /\ finding.severity = "LOW"
           /\ ~allFour => finding.status = "FAIL" /\ finding.severity = "HIGH"

C17_Witness ==
    /\ probe.provider = "S3"
    /\ ProbedRecord.publicAccess.blockPublicAcls
    /\ ProbedRecord.publicAccess.blockPublicPolicy
    /\ ProbedRecord.publicAccess.ignorePublicAcls
    /\ ~ProbedRecord.publicAccess.restrictPublicBuckets
    /\ ProbedFinding("Public Access Block").status = "FAIL"
    /\ ProbedFinding("Public Access Block").severity = "HIGH"

\* C18: the MFA Enabled finding of an IAM user is FAIL iff the user has console
\* access and no MFA, and PASS otherwise; without console access it is PASS
\* whether or not the user has MFA.
C18_MfaOnlyWithConsole ==
    probe.provider = "IAM" =>
        LET finding == ProbedFinding("MFA Enabled")
        IN /\ finding.status \in {"PASS", "FAIL"}
           /\ finding.status = "FAIL"
                 <=> (ProbedRecord.hasConsoleAccess /\ ~ProbedRecord.hasMFA)
           /\ finding.status = "FAIL" => finding.severity = "HIGH"
           /\ ~ProbedRecord.hasConsoleAccess =>
                 finding.status = "PASS" /\ finding.severity = "LOW"
           /\ finding.resourceId = ProbedRecord.userName

C18_Witness ==
    /\ probe.provider = "IAM"
    /\ ~ProbedRecord.hasConsoleAccess
    /\ ~ProbedRecord.hasMFA
    /\ probe.raw[1].login.err = "NoSuchEntityException"
    /\ probe.raw[1].mfa = [err |-> "", MFADevices |-> 0]
    /\ ProbedFinding("MFA Enabled").status = "PASS"

\* The retention period the provider answered for the probed instance, a
\* missing one counting as 0.
ProbedRetention ==
    IF probe.raw[1].BackupRetentionPeriod.has
    THEN probe.raw[1].BackupRetentionPeriod.v
    ELSE 0

\* C19: the Automated Backups finding of an RDS instance is PASS iff its
\* backup retention period (0 when missing) is positive and FAIL otherwise,
\* and on PASS the message spells that number of days.
C19_BackupRetention ==
    probe.provider = "RDS" =>
        LET finding == ProbedFinding("Automated Backups")
        IN /\ ProbedRecord.backupRetentionPeriod = ProbedRetention
           /\ finding.status = (IF ProbedRetention > 0 THEN "PASS" ELSE "FAIL")
           /\ finding.status = "PASS" =>
                 finding.message = "Automated backups enabled with "
                                     \o ToString(ProbedRetention) \o " day retention"
           /\ finding.status = "FAIL" =>
                 finding.message
                   = "Automated backups are NOT enabled. Enable for disaster recovery"

C19_Witness ==
    /\ probe.provider = "RDS"
    /\ probe.raw[1].BackupRetentionPeriod = Some(7)
    /\ ProbedFinding("Automated Backups").status = "PASS"
    /\ ProbedFinding("Automated Backups").message
         = "Automated backups enabled with 7 day retention"

\* The three policies of the allow-list, as the source spells them.
AdminArns ==
    {"arn:aws:iam::aws:policy/AdministratorAccess",
     "arn:aws:iam::aws:policy/PowerUserAccess",
     "arn:aws:iam::aws:policy/IAMFullAccess"}

ProbedInstance == probe.raw[1]
ScannedStates == {"running", "stopped"}

PairOf(f) == <<f.resourceId, f.checkName>>

\* C22: in the ScanResult runFullScan returns no (resourceId, checkName) pair
\* occurs twice among the findings, whichever scanners failed: the checks of
\* different providers and resource kinds carry different names, so that a
\* bucket and a database instance of the same name do not clash, and
\* ROOT-ACCOUNT and the *-SCANNER ids occur once each.
C22_OneFindingPerPair ==
    \A i \in Scans :
        Returned(i) =>
            LET fs == scanResult[i].findings
            IN \A k, l \in 1..Len(fs) : PairOf(fs[k]) = PairOf(fs[l]) => k = l

C22_Witness ==
    /\ Returned(1)
    /\ LET fs == scanResult[1].findings
       IN /\ \E k, l \in 1..Len(fs) :
                /\ fs[k].resourceId = fs[l].resourceId
                /\ fs[k].resourceType = "S3"
                /\ fs[l].resourceType = "RDS"
          /\ \E k \in 1..Len(fs) : fs[k].resourceId = "ROOT-ACCOUNT"
          /\ \E k \in 1..Len(fs) : fs[k].resourceId = "EC2-SCANNER"

\* The account the four scanners were run against.
ProbedAccount == probe.raw[1]

FindingsOfCheck(check) == SelectSeq(probe.findings, LAMBDA f : f.checkName = check)
FindingsAbout(check, id) ==
    Len(SelectSeq(probe.findings, LAMBDA f : f.checkName = check /\ f.resourceId = id))

ScannedInstances ==
    SelectSeq(ProbedAccount.instances, LAMBDA x : x.State \in ScannedStates)

FailSeverityOf(check) ==
    CASE check = "Public Access Block" -> "HIGH"
      [] check = "Server-Side Encryption" -> "MEDIUM"
      [] check = "Versioning" -> "LOW"
      [] check = "SSH Port Exposure (22)" -> "HIGH"
      [] check = "RDP Port Exposure (3389)" -> "HIGH"
      [] check = "Unrestricted Inbound Access" -> "MEDIUM"
      [] check = "Public IP Exposure" -> "MEDIUM"
      [] check = "Root Account MFA" -> "CRITICAL"
      [] check = "MFA Enabled" -> "HIGH"
      [] check = "Admin Access Check" -> "HIGH"
      [] check = "Public Accessibility" -> "HIGH"
      [] check = "Encryption at Rest" -> "MEDIUM"
      [] check = "Automated Backups" -> "MEDIUM"
      [] check = "Multi-AZ Deployment" -> "LOW"
      [] OTHER -> "none"

RejectedProviders(i) == {p \in ProviderSet : settled[i][p].state = "rejected"}
ResolvedLength(i, p) ==
    IF settled[i][p].state = "rejected" THEN 0 ELSE Len(settled[i][p].findings)

\* C25: when the promise of a scanner itself rejects and the merge does not
\* throw, runFullScan returns a completed ScanResult in which the rejecting
\* scanner has no finding at all (no ERROR finding is made up for it: the
\* errors counter counts only the scanners that caught their own failure),
\* and which holds as many findings as the other scanners resolved with.
C25_RejectionContributesNothing ==
    \A i \in Scans :
        (Returned(i) /\ ~aggThrew[i] /\ RejectedProviders(i) # {}) =>
            LET fs == scanResult[i].findings
            IN /\ scanResult[i].status = "completed"
               /\ \A k \in 1..Len(fs) : ProviderOfFinding(fs[k]) \notin RejectedProviders(i)
               /\ Len(fs) = ResolvedLength(i, "S3") + ResolvedLength(i, "EC2")
                            + ResolvedLength(i, "IAM") + ResolvedLength(i, "RDS")
               /\ scanResult[i].summary.totalResources = Len(fs)
               /\ scanResult[i].summary.errors
                     = Cardinality({p \in ProviderSet \ RejectedProviders(i) :
                                       settled[i][p].raised})

C25_Witness ==
    /\ Returned(1)
    /\ ~aggThrew[1]
    /\ RejectedProviders(1) = {"S3", "RDS"}
    /\ scanResult[1].status = "completed"
    /\ Len(scanResult[1].findings) = 10
    /\ scanResult[1].summary.errors = 0

\* The findings the four scanners of invocation i settled with, in the order
\* S3, EC2, IAM, RDS, whatever the order in which they settled.
InProviderOrder(i) ==
    CatchScanner(settled[i]["S3"]) \o CatchScanner(settled[i]["EC2"])
    \o CatchScanner(settled[i]["IAM"]) \o CatchScanner(settled[i]["RDS"])

SummaryCounts(summary) ==
    <<summary.totalResources, summary.passed, summary.failed, summary.errors,
      summary.highSeverity, summary.criticalSeverity>>

\* C26: the findings of a completed ScanResult are the S3 findings, then the
\* EC2, the IAM and the RDS findings, and its summary counts are the counts of
\* that sequence: both are determined by what the scanners settled with and
\* not by the order in which they settled.
C26_OrderIndependent ==
    \A i \in Scans :
        (Returned(i) /\ ~aggThrew[i]) =>
            /\ WithoutTimestamps(scanResult[i].findings) = InProviderOrder(i)
            /\ SummaryCounts(scanResult[i].summary)
                  = SummaryCounts(calculateSummary(InProviderOrder(i), DateOf(0)))

C26_Witness ==
    /\ Returned(1)
    /\ ~aggThrew[1]
    /\ settled[1]["RDS"].at = 1
    /\ settled[1]["IAM"].at = 2
    /\ settled[1]["EC2"].at = 3
    /\ settled[1]["S3"].at = 4
    /\ \A p \in ProviderSet : settled[1][p].findings # <<>>
    /\ scanResult[1].findings[1].resourceType = "S3"
    /\ scanResult[1].findings[Len(scanResult[1].findings)].resourceType = "RDS"

\* C27: in every ScanResult runFullScan returns, summary.totalResources is the
\* number of findings the result carries; on the failed path the findings are
\* still empty and every counter of the summary is still 0, whatever the
\* scanners had settled with before the merge threw.
C27_TotalIsFindingCount ==
    \A i \in Scans :
        Returned(i) =>
            /\ scanResult[i].summary.totalResources = Len(scanResult[i].findings)
            /\ scanResult[i].status = "failed" =>
                  /\ scanResult[i].findings = <<>>
                  /\ SummaryCounts(scanResult[i].summary) = <<0, 0, 0, 0, 0, 0>>

C27_Witness ==
    /\ Returned(1)
    /\ scanResult[1].status = "failed"
    /\ \A p \in ProviderSet : settled[1][p].findings # <<>>
    /\ scanResult[1].findings = <<>>
    /\ scanResult[1].summary.totalResources = 0

OpenRuleCount(sg) == Len(SelectSeq(sg.inboundRules, LAMBDA r : r.isOpenToWorld))

\* C28: a security group record with hasOpenSSH or hasOpenRDP has
\* hasOpenToWorld too; so whenever scanEC2 reports FAIL on SSH Port Exposure
\* or on RDP Port Exposure for a group, it reports FAIL on Unrestricted
\* Inbound Access for the same group, with a count of open rules of at least 1
\* in the message.
C28_PortExposureImpliesOpenToWorld ==
    probe.provider = "EC2" =>
        LET sg == probe.records[1]
            ssh == ProbedFinding("SSH Port Exposure (22)")
            rdp == ProbedFinding("RDP Port Exposure (3389)")
            open == ProbedFinding("Unrestricted Inbound Access")
        IN /\ sg.hasOpenSSH => sg.hasOpenToWorld
           /\ sg.hasOpenRDP => sg.hasOpenToWorld
           /\ (ssh.status = "FAIL" \/ rdp.status = "FAIL") =>
                 /\ open.status = "FAIL"
                 /\ open.resourceId = ssh.resourceId
                 /\ open.resourceId = rdp.resourceId
                 /\ OpenRuleCount(sg) >= 1
                 /\ open.message = ToString(OpenRuleCount(sg))
                                     \o " inbound rule(s) allow traffic from 0.0.0.0/0"

C28_Witness ==
    /\ probe.provider = "EC2"
    /\ ProbedSources = <<"10.0.0.0/8", "::/0">>
    /\ ProbedPermission.IpProtocol = "tcp"
    /\ ProbedFinding("SSH Port Exposure (22)").status = "FAIL"
    /\ ProbedFinding("RDP Port Exposure (3389)").status = "PASS"
    /\ ProbedFinding("Unrestricted Inbound Access").status = "FAIL"
    /\ OpenRuleCount(probe.records[1]) = 1

ErrorFindings(i) == SelectSeq(scanResult[i].findings, LAMBDA f : f.status = "ERROR")

\* C29: in every summary highSeverity + criticalSeverity <= failed: the two
\* counters count FAIL findings only, so a synthetic ERROR finding, although
\* of severity HIGH, adds to errors and totalResources and not to
\* highSeverity.
C29_SeverityCountsWithinFailed ==
    \A i \in Scans :
        Started(i) =>
            LET m == scanResult[i].summary
                fs == scanResult[i].findings
            IN /\ m.highSeverity + m.criticalSeverity <= m.failed
               /\ m.highSeverity
                     = Len(SelectSeq(fs, LAMBDA f : f.status = "FAIL" /\ f.severity = "HIGH"))
               /\ m.criticalSeverity
                     = Len(SelectSeq(fs, LAMBDA f : f.status = "FAIL" /\ f.severity = "CRITICAL"))
               /\ m.errors = Len(ErrorFindings(i))
               /\ \A k \in 1..Len(ErrorFindings(i)) : ErrorFindings(i)[k].severity = "HIGH"

C29_Witness ==
    /\ Returned(1)
    /\ scanResult[1].status = "completed"
    /\ Len(ErrorFindings(1)) = 4
    /\ scanResult[1].summary.errors = 4
    /\ scanResult[1].summary.totalResources = 4
    /\ scanResult[1].summary.highSeverity = 0
    /\ scanResult[1].summary.failed = 0

\* C30: the clock never running backwards, a completed ScanResult has
\* startTime <= the timestamp of its findings <= summary.scanTime <= endTime
\* and a failed one startTime <= endTime; the start time is read before any
\* scanner has settled (while scanners are pending it is already there and not
\* in the future), and the results are stamped only when all have settled.
C30_TimesInOrder ==
    \A i \in Scans :
        /\ Started(i) =>
              /\ IsDate(scanResult[i].startTime)
              /\ scanResult[i].startTime.ms <= now
        /\ ~Started(i) => \A p \in ProviderSet : settled[i][p].state = "pending"
        /\ Returned(i) =>
              /\ AllSettled(i)
              /\ scanResult[i].startTime.ms <= scanResult[i].endTime.ms
              /\ scanResult[i].endTime.ms <= now
              /\ scanResult[i].status = "completed" =>
                    /\ \A k \in 1..Len(scanResult[i].findings) :
                          /\ scanResult[i].startTime.ms
                                <= scanResult[i].findings[k].timestamp.ms
                          /\ scanResult[i].findings[k].timestamp.ms
                                <= scanResult[i].summary.scanTime.ms
                    /\ scanResult[i].startTime.ms <= scanResult[i].summary.scanTime.ms
                    /\ scanResult[i].summary.scanTime.ms <= scanResult[i].endTime.ms

C30_Witness ==
    /\ Returned(1)
    /\ scanResult[1].status = "completed"
    /\ scanResult[1].findings # <<>>
    /\ scanResult[1].startTime.ms < scanResult[1].findings[1].timestamp.ms
    /\ scanResult[1].findings[1].timestamp.ms = scanResult[1].summary.scanTime.ms
    /\ scanResult[1].summary.scanTime.ms < scanResult[1].endTime.ms

====
